---- MODULE Spec2Model ----
(***************************************************************************)
(* Query request/result accumulators (collision_data.h) and the neighbour  *)
(* table of a convex polytope (shape/details/convex.hxx).                  *)
(*                                                                         *)
(* FCL_REAL values are modelled by integers: RealMax stands for            *)
(* (std::numeric_limits<FCL_REAL>::max)(), the largest value of the model, *)
(* and NaN for quiet_NaN(), a value no computation of the model produces.  *)
(* A Vec3f is a triple of such values, a pointer to a CollisionGeometry is *)
(* a small integer, NULL being 0.                                          *)
(***************************************************************************)
EXTENDS Integers, Sequences, FiniteSets, TLC

\* ----------------------------------------------------------------- bounds
MaxDist == 2
NumPairs == 2
MaxVec == 1
MaxContacts == 2
MaxTime == 1
MaxPoints == 4
MaxFaces == 2
FanSpread == 1
MaxJunk == 1
MaxSide == 2
MaxShift == 1
MaxSets == 1

\* ------------------------------------------------------ program constants
NULL == 0
NONE == -1
default_num_max_contacts == 1
UCharMax == 255

\* ------------------------------------------------------------ value sets
RealMax == MaxDist + 1
NaN == RealMax + 1
Distances == (0 - MaxDist)..RealMax
Vec3f(x, y, z) == <<x, y, z>>
Vecs == {Vec3f(x, 0, 0) : x \in 0..MaxVec}
nan == Vec3f(NaN, NaN, NaN)
\* The pairs of primitives a traversal tests: pair k has its own geometries,
\* primitive ids, nearest points and normal.
Pairs == 1..NumPairs
Pair(k) ==
  [o1 |-> k, o2 |-> (k % NumPairs) + 1, b1 |-> k - 1, b2 |-> 2 * k,
   p1 |-> Vec3f(k, 0, 0), p2 |-> Vec3f(0, k, 0), normal |-> Vec3f(0, 0, k)]
support_func_guess_t(a, b) == <<a, b>>
Min(a, b) == IF a < b THEN a ELSE b

VARIABLES
  dres,    \* the DistanceResult of a distance query
  dhist,   \* history of the update calls made on dres since it was fresh
  cres,    \* the CollisionResult of a collision query
  req,     \* the CollisionRequest (a QueryRequest) of the next query
  call,    \* the last operation called, its arguments and its outcome
  life,    \* "none": no polytope; "built": its last fillNeighbors returned;
           \* "failed": its last fillNeighbors threw
  num_points,    \* Convex: the number of vertices
  polygons,      \* Convex: the faces, each the sequence of its vertex indices
  num_polygons,  \* Convex: the number of faces
  neighbors,     \* Convex: for each vertex, count_ and the offset n_ of its
                 \* neighbours in nneighbors_
  nneighbors_,   \* Convex: the packed buffer of neighbour indices
  points,        \* Convex: the coordinates of the vertices
  polygons_get,  \* Convex: the address polygons.get() of the buffer of faces,
                 \* NULL when there is none; polygons is what that buffer holds
  neighbors_get,   \* Convex: the address neighbors.get() of the array neighbors
  nneighbors_get,  \* Convex: the address nneighbors_.get() of the packed buffer
  copy,          \* the polytope made by clone(), if any
  reader,        \* the threads that read the polytope
  writer         \* the thread that calls set() on the polytope

polytope == <<life, num_points, polygons, num_polygons, neighbors, nneighbors_, points,
              polygons_get, neighbors_get, nneighbors_get>>
convex == <<life, num_points, polygons, num_polygons, neighbors, nneighbors_, points,
            polygons_get, neighbors_get, nneighbors_get, copy, reader, writer>>
query == <<dres, dhist, cres, req>>
vars == <<dres, dhist, cres, req, call, life, num_points, polygons, num_polygons,
          neighbors, nneighbors_, points, polygons_get, neighbors_get, nneighbors_get,
          copy, reader, writer>>

\* ----------------------------------------------------------- QueryResult
QueryResult ==
  [cached_gjk_guess |-> Vec3f(0, 0, 0),
   cached_support_func_guess |-> support_func_guess_t(-1, -1),
   timings |-> 0]

\* -------------------------------------------------------- DistanceResult
DistanceResult(min_distance_) ==
  [f \in DOMAIN QueryResult \cup
         {"min_distance", "nearest_points", "normal", "o1", "o2", "b1", "b2"} |->
     CASE f = "min_distance" -> min_distance_
       [] f = "nearest_points" -> <<nan, nan>>
       [] f = "normal" -> nan
       [] f = "o1" -> NULL
       [] f = "o2" -> NULL
       [] f = "b1" -> NONE
       [] f = "b2" -> NONE
       [] OTHER -> QueryResult[f]]

\* update(distance, o1_, o2_, b1_, b2_)
DistanceResult_update(r, distance, o1_, o2_, b1_, b2_) ==
  IF r.min_distance > distance
    THEN [r EXCEPT !.min_distance = distance,
                   !.o1 = o1_, !.o2 = o2_, !.b1 = b1_, !.b2 = b2_]
    ELSE r

\* a variant of update in which a tie replaces the result
DistanceResult_update_points_tie(r, distance, o1_, o2_, b1_, b2_, p1, p2, normal_) ==
  IF r.min_distance >= distance
    THEN [r EXCEPT !.min_distance = distance,
                   !.o1 = o1_, !.o2 = o2_, !.b1 = b1_, !.b2 = b2_,
                   !.nearest_points = <<p1, p2>>,
                   !.normal = normal_]
    ELSE r

\* update(distance, o1_, o2_, b1_, b2_, p1, p2, normal_)
DistanceResult_update_points(r, distance, o1_, o2_, b1_, b2_, p1, p2, normal_) ==
  IF r.min_distance > distance
    THEN [r EXCEPT !.min_distance = distance,
                   !.o1 = o1_, !.o2 = o2_, !.b1 = b1_, !.b2 = b2_,
                   !.nearest_points = <<p1, p2>>,
                   !.normal = normal_]
    ELSE r

\* update(other_result)
DistanceResult_update_other(r, other_result) ==
  IF r.min_distance > other_result.min_distance
    THEN [r EXCEPT !.min_distance = other_result.min_distance,
                   !.o1 = other_result.o1, !.o2 = other_result.o2,
                   !.b1 = other_result.b1, !.b2 = other_result.b2,
                   !.nearest_points = other_result.nearest_points,
                   !.normal = other_result.normal]
    ELSE r

\* a variant of clear that forgets the normal
DistanceResult_clear_keeps_normal(r) ==
  [r EXCEPT !.min_distance = RealMax,
            !.o1 = NULL, !.o2 = NULL, !.b1 = NONE, !.b2 = NONE,
            !.nearest_points = <<nan, nan>>,
            !.timings = 0]

DistanceResult_clear(r) ==
  [r EXCEPT !.min_distance = RealMax,
            !.o1 = NULL, !.o2 = NULL, !.b1 = NONE, !.b2 = NONE,
            !.nearest_points = <<nan, nan>>,
            !.normal = nan,
            !.timings = 0]

\* --------------------------------------------------------------- Contact
\* 0.5 * depth_ * v, for the even depths the model passes
HalfTimes(depth_, v) == Vec3f((depth_ * v[1]) \div 2, (depth_ * v[2]) \div 2, (depth_ * v[3]) \div 2)
VecSub(a, b) == Vec3f(a[1] - b[1], a[2] - b[2], a[3] - b[3])
VecAdd(a, b) == Vec3f(a[1] + b[1], a[2] + b[2], a[3] + b[3])

\* Contact(o1_, o2_, b1_, b2_, pos_, normal_, depth_)
Contact(o1_, o2_, b1_, b2_, pos_, normal_, depth_) ==
  [o1 |-> o1_, o2 |-> o2_, b1 |-> b1_, b2 |-> b2_,
   normal |-> normal_, pos |-> pos_, penetration_depth |-> depth_,
   nearest_points |-> <<VecSub(pos_, HalfTimes(depth_, normal_)),
                        VecAdd(pos_, HalfTimes(depth_, normal_))>>]

\* (p1 + p2) / 2, for the even sums the model passes
HalfSum(p1, p2) ==
  Vec3f((p1[1] + p2[1]) \div 2, (p1[2] + p2[2]) \div 2, (p1[3] + p2[3]) \div 2)

\* Contact(o1_, o2_, b1_, b2_, p1, p2, normal_, depth_)
Contact_points(o1_, o2_, b1_, b2_, p1, p2, normal_, depth_) ==
  [o1 |-> o1_, o2 |-> o2_, b1 |-> b1_, b2 |-> b2_,
   normal |-> normal_, pos |-> HalfSum(p1, p2), penetration_depth |-> depth_,
   nearest_points |-> <<p1, p2>>]

\* a variant of operator< that looks at b2 first
operator_less_b2_first(c, other) ==
  IF c.b2 = other.b2 THEN c.b1 < other.b1 ELSE c.b2 < other.b2

\* Contact::operator<
operator_less(c, other) ==
  IF c.b1 = other.b1 THEN c.b2 < other.b2 ELSE c.b1 < other.b1

\* Contact::operator==
operator_eq(c, other) ==
  /\ c.o1 = other.o1 /\ c.o2 = other.o2 /\ c.b1 = other.b1 /\ c.b2 = other.b2
  /\ c.normal = other.normal /\ c.pos = other.pos
  /\ c.penetration_depth = other.penetration_depth

\* std::sort(first, last) with operator<: the rearrangements of the range in
\* which no element is less than one placed before it; the order of elements
\* neither of which is less than the other is not specified.
sort(range) ==
  {out \in {[x \in 1..Len(range) |-> range[p[x]]] : p \in Permutations(1..Len(range))} :
     \A x \in 1..Len(out) : \A y \in (x + 1)..Len(out) : ~operator_less(out[y], out[x])}

\* ------------------------------------------------------- CollisionResult
\* CollisionResult(): the constructor leaves nearest_points uninitialised,
\* np0 and np1 are what the memory holds.
CollisionResult(np0, np1) ==
  [f \in DOMAIN QueryResult \cup
         {"contacts", "distance_lower_bound", "nearest_points"} |->
     CASE f = "contacts" -> << >>
       [] f = "distance_lower_bound" -> RealMax
       [] f = "nearest_points" -> <<np0, np1>>
       [] OTHER -> QueryResult[f]]

\* a variant that overwrites the bound whatever the candidate
updateDistanceLowerBound_overwrite(r, distance_lower_bound_) ==
  [r EXCEPT !.distance_lower_bound = distance_lower_bound_]

updateDistanceLowerBound(r, distance_lower_bound_) ==
  IF distance_lower_bound_ < r.distance_lower_bound
    THEN [r EXCEPT !.distance_lower_bound = distance_lower_bound_]
    ELSE r

\* a variant that inserts the contact at the front
addContact_front(r, c) == [r EXCEPT !.contacts = <<c>> \o r.contacts]

addContact(r, c) == [r EXCEPT !.contacts = Append(r.contacts, c)]

isCollision(r) == Len(r.contacts) > 0

numContacts(r) == Len(r.contacts)

\* a variant that clamps an index out of range to the first contact
getContact_front(r, i) ==
  IF Len(r.contacts) = 0
    THEN [threw |-> "invalid_argument", ret |-> NULL]
    ELSE IF i < Len(r.contacts)
      THEN [threw |-> "", ret |-> r.contacts[i + 1]]
      ELSE [threw |-> "", ret |-> r.contacts[1]]

\* getContact(i): what it throws or returns
getContact(r, i) ==
  IF Len(r.contacts) = 0
    THEN [threw |-> "invalid_argument", ret |-> NULL]
    ELSE IF i < Len(r.contacts)
      THEN [threw |-> "", ret |-> r.contacts[i + 1]]
      ELSE [threw |-> "", ret |-> r.contacts[Len(r.contacts)]]

\* setContact(i, c): what it throws and the result it leaves
setContact(r, i, c) ==
  IF Len(r.contacts) = 0
    THEN [threw |-> "invalid_argument", res |-> r]
    ELSE IF i < Len(r.contacts)
      THEN [threw |-> "", res |-> [r EXCEPT !.contacts[i + 1] = c]]
      ELSE [threw |-> "", res |-> [r EXCEPT !.contacts[Len(r.contacts)] = c]]

\* a variant of clear that also puts the cached guess back to its first value
CollisionResult_clear_resets_guess(r) ==
  [r EXCEPT !.distance_lower_bound = RealMax,
            !.contacts = << >>,
            !.timings = 0,
            !.cached_gjk_guess = QueryResult.cached_gjk_guess,
            !.cached_support_func_guess = QueryResult.cached_support_func_guess]

\* a variant of clear that keeps the lower bound
CollisionResult_clear_keeps_bound(r) ==
  [r EXCEPT !.contacts = << >>,
            !.timings = 0]

CollisionResult_clear(r) ==
  [r EXCEPT !.distance_lower_bound = RealMax,
            !.contacts = << >>,
            !.timings = 0]

\* std::sqrt of the squares the model passes
sqrt(x) == CHOOSE y \in 0..x : y * y = x

updateDistanceLowerBoundFromBV(res, sqrDistLowerBound) ==
  IF res.distance_lower_bound <= 0
    THEN res
    ELSE LET new_dlb == sqrt(sqrDistLowerBound) IN
           IF new_dlb < res.distance_lower_bound
             THEN [res EXCEPT !.distance_lower_bound = new_dlb]
             ELSE res

updateDistanceLowerBoundFromLeaf(res, distance, p0, p1) ==
  IF distance < res.distance_lower_bound
    THEN [res EXCEPT !.distance_lower_bound = distance,
                     !.nearest_points = <<p0, p1>>]
    ELSE res

\* ---------------------------------------- QueryRequest, CollisionRequest
\* CollisionRequest(): the QueryRequest fields and its own
CollisionRequest ==
  [gjk_initial_guess |-> "DefaultGuess",
   enable_cached_gjk_guess |-> FALSE,
   gjk_variant |-> "DefaultGJK",
   gjk_convergence_criterion |-> "VDB",
   gjk_convergence_criterion_type |-> "Relative",
   gjk_tolerance |-> "1e-6",
   gjk_max_iterations |-> 128,
   cached_gjk_guess |-> Vec3f(1, 0, 0),
   cached_support_func_guess |-> support_func_guess_t(0, 0),
   enable_timings |-> FALSE,
   collision_distance_threshold |-> "dummy_precision",
   num_max_contacts |-> default_num_max_contacts,
   enable_contact |-> FALSE,
   enable_distance_lower_bound |-> FALSE,
   security_margin |-> 0,
   break_distance |-> "1e-3",
   distance_upper_bound |-> RealMax]

\* a variant that ignores the deprecated flag
updateGuess_no_flag(q, result) ==
  IF q.gjk_initial_guess = "CachedGuess"
    THEN [q EXCEPT !.cached_gjk_guess = result.cached_gjk_guess,
                   !.cached_support_func_guess = result.cached_support_func_guess]
    ELSE q

updateGuess(q, result) ==
  LET q1 == IF q.gjk_initial_guess = "CachedGuess"
              THEN [q EXCEPT !.cached_gjk_guess = result.cached_gjk_guess,
                             !.cached_support_func_guess = result.cached_support_func_guess]
              ELSE q
  IN IF q1.enable_cached_gjk_guess
       THEN [q1 EXCEPT !.cached_gjk_guess = result.cached_gjk_guess,
                       !.cached_support_func_guess = result.cached_support_func_guess]
       ELSE q1

\* ---------------------------------------------------------------- Convex
\* Vertices are numbered from 0; polygon[j] of the code is P[j + 1] here.
\* The loops over long ranges are run by halves, first half first, which
\* keeps the order of the iterations; the second half starts from the state
\* the first half has left (the test on that state has it computed first).
\* std::set<index_type>::begin()..end(): the elements of S within lo..hi in
\* increasing order
RECURSIVE InOrder(_, _, _)
InOrder(S, lo, hi) ==
  IF lo > hi \/ S = {} THEN << >>
  ELSE IF lo = hi THEN (IF lo \in S THEN <<lo>> ELSE << >>)
  ELSE LET mid == (lo + hi) \div 2
       IN InOrder({x \in S : x <= mid}, lo, mid) \o InOrder({x \in S : x > mid}, mid + 1, hi)

\* a variant of the body of the loop over j that registers the successor only
updateNeighbors_successor(polygon, j, st) ==
  LET n == Len(polygon)
      k == IF j = n - 1 THEN 0 ELSE j + 1
      pj == polygon[j + 1]
      pk == polygon[k + 1]
  IN IF pk \notin st.nneighbors[pj]
       THEN [nneighbors |-> [st.nneighbors EXCEPT ![pj] = @ \cup {pk}],
             c_nneighbors |-> st.c_nneighbors + 1]
       ELSE st

\* fillNeighbors, the body of the loop over j: update the neighbours of pj
updateNeighbors(polygon, j, st) ==
  LET n == Len(polygon)
      i == IF j = 0 THEN n - 1 ELSE j - 1
      k == IF j = n - 1 THEN 0 ELSE j + 1
      pi == polygon[i + 1]
      pj == polygon[j + 1]
      pk == polygon[k + 1]
      st1 == IF pi \notin st.nneighbors[pj]
               THEN [nneighbors |-> [st.nneighbors EXCEPT ![pj] = @ \cup {pi}],
                     c_nneighbors |-> st.c_nneighbors + 1]
               ELSE st
  IN IF pk \notin st1.nneighbors[pj]
       THEN [nneighbors |-> [st1.nneighbors EXCEPT ![pj] = @ \cup {pk}],
             c_nneighbors |-> st1.c_nneighbors + 1]
       ELSE st1

\* fillNeighbors, the loop over the positions j of one polygon
RECURSIVE overPositions(_, _, _)
overPositions(polygon, j, st) ==
  IF j >= Len(polygon) THEN st
  ELSE overPositions(polygon, j + 1, updateNeighbors(polygon, j, st))

\* fillNeighbors, the loop over the polygons l in lo..hi-1
RECURSIVE overPolygons(_, _, _, _)
overPolygons(polygons_, lo, hi, st) ==
  IF lo >= hi THEN st
  ELSE IF hi = lo + 1 THEN overPositions(polygons_[lo + 1], 0, st)
  ELSE LET mid == (lo + hi) \div 2
           first == overPolygons(polygons_, lo, mid, st)
       IN IF first.c_nneighbors >= 0 THEN overPolygons(polygons_, mid, hi, first)
                                     ELSE first

\* a variant of the body of the loop over i that never throws
flattenVertex_no_test(nneighbors, num_points_, i, t) ==
  [t EXCEPT
     !.neighbors = Append(@, [count_ |-> Cardinality(nneighbors[i]) % (UCharMax + 1),
                              n_ |-> Len(t.nneighbors_)]),
     !.nneighbors_ = @ \o InOrder(nneighbors[i], 0, num_points_ - 1)]

\* fillNeighbors, the body of the loop over the vertices i: t.neighbors are
\* the entries neighbors_[0..i-1] written so far, t.nneighbors_ the cells
\* written so far from nneighbors_.get() to p_nneighbors, and n_ is kept as
\* an offset from nneighbors_.get().
flattenVertex(nneighbors, num_points_, i, t) ==
  IF Cardinality(nneighbors[i]) >= UCharMax
    THEN [t EXCEPT !.threw = "logic_error"]
    ELSE [t EXCEPT
            !.neighbors = Append(@, [count_ |-> Cardinality(nneighbors[i]) % (UCharMax + 1),
                                     n_ |-> Len(t.nneighbors_)]),
            !.nneighbors_ = @ \o InOrder(nneighbors[i], 0, num_points_ - 1)]

\* fillNeighbors, the loop over the vertices i in lo..hi-1, left by the throw
RECURSIVE flatten(_, _, _, _, _)
flatten(nneighbors, num_points_, lo, hi, t) ==
  IF lo >= hi THEN t
  ELSE IF hi = lo + 1 THEN flattenVertex(nneighbors, num_points_, lo, t)
  ELSE LET mid == (lo + hi) \div 2
           first == flatten(nneighbors, num_points_, lo, mid, t)
       IN IF first.threw # "" THEN first
                              ELSE flatten(nneighbors, num_points_, mid, hi, first)

\* a variant of fillNeighbors that leaves out the first polygon
fillNeighbors_from_second(num_points_, polygons_, num_polygons_) ==
  LET built == overPolygons(polygons_, 1, num_polygons_,
                 [nneighbors |-> [v \in 0..(num_points_ - 1) |-> {}],
                  c_nneighbors |-> 0])
  IN [flatten(built.nneighbors, num_points_, 0, num_points_,
              [threw |-> "", neighbors |-> << >>, nneighbors_ |-> << >>,
               c_nneighbors |-> 0])
      EXCEPT !.c_nneighbors = built.c_nneighbors]

\* fillNeighbors(): what it throws, what it has written into the two new
\* arrays, and the length c_nneighbors of the second.
fillNeighbors(num_points_, polygons_, num_polygons_) ==
  LET built == overPolygons(polygons_, 0, num_polygons_,
                 [nneighbors |-> [v \in 0..(num_points_ - 1) |-> {}],
                  c_nneighbors |-> 0])
  IN [flatten(built.nneighbors, num_points_, 0, num_points_,
              [threw |-> "", neighbors |-> << >>, nneighbors_ |-> << >>,
               c_nneighbors |-> 0])
      EXCEPT !.c_nneighbors = built.c_nneighbors]

\* new T[n] of which the cells `written` have been written: a cell that was
\* not holds junk.
NewArray(n, written, junk) ==
  [x \in 0..(n - 1) |-> IF x < Len(written) THEN written[x + 1] ELSE junk]

\* The address of the array that reset(new T[n]) installs: new T[n] returns
\* while the array in place is still allocated, so it is another address.
NewAddress(old) == IF old = 1 THEN 2 ELSE 1

\* ConvexBase::set(points_, num_points_)
ConvexBase_set(points_, num_points_) == [points |-> points_, num_points |-> num_points_]

\* The neighbours stored for vertex v: n_[0] .. n_[count_ - 1]
Neighbors(v) ==
  {nneighbors_[neighbors[v].n_ + x] : x \in 0..(neighbors[v].count_ - 1)}

\* The meshes the callers pass: a few triangles over a few vertices, and the
\* cones whose apex, the last vertex k, is joined to every vertex 0..k-1 of
\* the base.
Triangles(n) ==
  {f \in {<<a, b, c>> : a \in 0..(n - 1), b \in 0..(n - 1), c \in 0..(n - 1)} :
     f[1] < f[2] /\ f[1] < f[3] /\ f[2] # f[3]}

Cone(k) ==
  [num_points |-> k + 1,
   polygons |-> [l \in 1..k |-> <<k, l - 1, IF l = k THEN 0 ELSE l>>]]

\* The polygons_ of n vertices, listed in the order of their vertex indices,
\* no face twice
InListOrder(f, g) ==
  (f[1] * MaxPoints + f[2]) * MaxPoints + f[3] < (g[1] * MaxPoints + g[2]) * MaxPoints + g[3]

FaceLists(n) ==
  {fs \in UNION {[1..m -> Triangles(n)] : m \in 0..MaxFaces} :
     \A l \in 1..(Len(fs) - 1) : InListOrder(fs[l], fs[l + 1])}

Meshes ==
  UNION {{[num_points |-> n, polygons |-> fs] : fs \in FaceLists(n)} : n \in 1..MaxPoints}

Inputs ==
  Meshes \cup {Cone(k) : k \in (UCharMax - FanSpread)..(UCharMax + 1)}

\* The address of a buffer of faces the caller has allocated: one that the
\* polytope made by clone() does not hold.
FreshBuffer == IF copy.polygons_get = 1 THEN 2 ELSE 1

\* The points_ of the meshes above: n points of a curve, no four in a plane
CurvePoints(n) == [v \in 0..(n - 1) |-> <<<<v, 1>>, <<v * v, 1>>, <<v * v * v, 1>>>>]

\* Convex(points_, num_points_, polygons_, num_polygons_) called with the
\* vertices points_ and the faces m.polygons, in a buffer of the caller unless
\* polygons_ is empty: when fillNeighbors throws there is no polytope.
Convex_Convex(points_, m, polygons_empty) ==
  \E t \in {fillNeighbors(m.num_points, m.polygons, Len(m.polygons))} :
    /\ life = "none"
    /\ call' = [op |-> "Convex", threw |-> t.threw,
                num_points |-> m.num_points, polygons |-> m.polygons]
    /\ IF t.threw = ""
         THEN /\ life' = "built"
              /\ num_points' = m.num_points
              /\ points' = points_
              /\ polygons_get' = IF polygons_empty THEN NULL ELSE FreshBuffer
              /\ polygons' = m.polygons
              /\ num_polygons' = Len(m.polygons)
              /\ neighbors' = NewArray(m.num_points, t.neighbors, [count_ |-> 0, n_ |-> 0])
              /\ nneighbors_' = NewArray(t.c_nneighbors, t.nneighbors_, 0)
              /\ neighbors_get' = NewAddress(neighbors_get)
              /\ nneighbors_get' = NewAddress(nneighbors_get)
              /\ UNCHANGED <<copy, reader, writer>>
         ELSE UNCHANGED convex
    /\ UNCHANGED query

ConvexCtor ==
  \E m \in Inputs : Convex_Convex(CurvePoints(m.num_points), m, FALSE)

\* The table in place holds a neighbour
HasNeighbors ==
  life = "built" /\ \E v \in 0..(num_points - 1) : neighbors[v].count_ > 0

\* set(points_, num_points_, polygons_, num_polygons_)
Convex_set(points_, m, polygons_empty) ==
  \E t \in {fillNeighbors(m.num_points, m.polygons, Len(m.polygons))} :
    /\ life # "none"
    /\ call' = [op |-> "set", threw |-> t.threw, had_neighbors |-> HasNeighbors,
                num_points |-> m.num_points, polygons |-> m.polygons]
    /\ num_points' = ConvexBase_set(points_, m.num_points).num_points
    /\ points' = ConvexBase_set(points_, m.num_points).points
    /\ num_polygons' = Len(m.polygons)
    /\ polygons_get' = IF polygons_empty THEN NULL ELSE FreshBuffer
    /\ polygons' = m.polygons
    /\ life' = IF t.threw = "" THEN "built" ELSE "failed"
    /\ \E junk \in (IF t.threw = "" THEN {0} ELSE 0..MaxJunk) :
         /\ neighbors' = NewArray(m.num_points, t.neighbors, [count_ |-> junk, n_ |-> junk])
         /\ nneighbors_' = NewArray(t.c_nneighbors, t.nneighbors_, junk)
    /\ neighbors_get' = NewAddress(neighbors_get)
    /\ nneighbors_get' = NewAddress(nneighbors_get)
    /\ UNCHANGED <<query, copy, reader, writer>>

\* a variant of set that puts back what was there when fillNeighbors throws
ConvexSet_rolls_back ==
  \E m \in Inputs :
    \E t \in {fillNeighbors(m.num_points, m.polygons, Len(m.polygons))} :
      /\ life # "none"
      /\ call' = [op |-> "set", threw |-> t.threw, had_neighbors |-> HasNeighbors,
                  num_points |-> m.num_points, polygons |-> m.polygons]
      /\ IF t.threw = ""
           THEN /\ num_points' = m.num_points
                /\ points' = CurvePoints(m.num_points)
                /\ num_polygons' = Len(m.polygons)
                /\ polygons_get' = FreshBuffer
                /\ polygons' = m.polygons
                /\ life' = "built"
                /\ neighbors' = NewArray(m.num_points, t.neighbors, [count_ |-> 0, n_ |-> 0])
                /\ nneighbors_' = NewArray(t.c_nneighbors, t.nneighbors_, 0)
                /\ neighbors_get' = NewAddress(neighbors_get)
                /\ nneighbors_get' = NewAddress(nneighbors_get)
           ELSE UNCHANGED polytope
      /\ UNCHANGED <<query, copy, reader, writer>>

\* a variant of set that keeps the table when the number of vertices is the same
ConvexSet_keeps_table ==
  \E m \in Inputs :
    \E t \in {fillNeighbors(m.num_points, m.polygons, Len(m.polygons))} :
      /\ life # "none"
      /\ call' = [op |-> "set", threw |-> t.threw, had_neighbors |-> HasNeighbors,
                  num_points |-> m.num_points, polygons |-> m.polygons]
      /\ num_points' = m.num_points
      /\ points' = CurvePoints(m.num_points)
      /\ num_polygons' = Len(m.polygons)
      /\ polygons_get' = FreshBuffer
      /\ polygons' = m.polygons
      /\ life' = IF t.threw = "" THEN "built" ELSE "failed"
      /\ IF life = "built" /\ num_points = m.num_points /\ t.threw = ""
           THEN UNCHANGED <<neighbors, nneighbors_, neighbors_get, nneighbors_get>>
           ELSE \E junk \in (IF t.threw = "" THEN {0} ELSE 0..MaxJunk) :
                  /\ neighbors' = NewArray(m.num_points, t.neighbors,
                                           [count_ |-> junk, n_ |-> junk])
                  /\ nneighbors_' = NewArray(t.c_nneighbors, t.nneighbors_, junk)
                  /\ neighbors_get' = NewAddress(neighbors_get)
                  /\ nneighbors_get' = NewAddress(nneighbors_get)
      /\ UNCHANGED <<query, copy, reader, writer>>

ConvexSet ==
  \E m \in Inputs : Convex_set(CurvePoints(m.num_points), m, FALSE)

\* --------------------------------------------------------------- clone
\* The polytope as the copy constructor reads it
This ==
  [num_points |-> num_points, points |-> points, neighbors |-> neighbors,
   nneighbors_ |-> nneighbors_, polygons_get |-> polygons_get, polygons |-> polygons,
   num_polygons |-> num_polygons]

\* ConvexBase(other): the clone has the vertices and the neighbour table of
\* other
ConvexBase_copy(other) ==
  [num_points |-> other.num_points, points |-> other.points,
   neighbors |-> other.neighbors, nneighbors_ |-> other.nneighbors_]

\* a variant of the copy constructor that copies the pointer to the faces
Convex_copy_pointer(other, buffer) ==
  [life |-> "built",
   num_points |-> ConvexBase_copy(other).num_points,
   points |-> ConvexBase_copy(other).points,
   neighbors |-> ConvexBase_copy(other).neighbors,
   nneighbors_ |-> ConvexBase_copy(other).nneighbors_,
   num_polygons |-> other.num_polygons,
   polygons_get |-> other.polygons_get,
   polygons |-> other.polygons]

\* Convex(const Convex& other), with buffer the address new PolygonT[] returns
Convex_copy(other, buffer) ==
  [life |-> "built",
   num_points |-> ConvexBase_copy(other).num_points,
   points |-> ConvexBase_copy(other).points,
   neighbors |-> ConvexBase_copy(other).neighbors,
   nneighbors_ |-> ConvexBase_copy(other).nneighbors_,
   num_polygons |-> other.num_polygons,
   polygons_get |-> IF other.polygons_get # NULL THEN buffer ELSE NULL,
   polygons |-> IF other.polygons_get # NULL
                  THEN SubSeq(other.polygons, 1, other.num_polygons)
                  ELSE << >>]

\* The address of a new buffer of faces for the clone: one that the polytope
\* does not hold
CloneBuffer == IF polygons_get = 1 THEN 2 ELSE 1

\* clone(): new Convex(*this)
Clone ==
  /\ life # "none"
  /\ copy' = Convex_copy(This, CloneBuffer)
  /\ call' = [op |-> "clone"]
  /\ UNCHANGED <<query, polytope, reader, writer>>

\* The meshes a polytope and its clone are built and set from: the lists of
\* triangles over three vertices
CloneMeshes == {[num_points |-> 3, polygons |-> fs] : fs \in FaceLists(3)}

\* The polytope is built, or set, with no buffer of faces (and no face) or
\* with a buffer of the caller
CloneCtor ==
  \E m \in CloneMeshes, polygons_empty \in BOOLEAN :
    /\ polygons_empty => m.polygons = << >>
    /\ Convex_Convex(CurvePoints(m.num_points), m, polygons_empty)

CloneSet ==
  \E m \in CloneMeshes, polygons_empty \in BOOLEAN :
    /\ polygons_empty => m.polygons = << >>
    /\ Convex_set(CurvePoints(m.num_points), m, polygons_empty)

\* set(points_, num_points_, polygons_, num_polygons_) called on the clone
Clone_set ==
  \E m \in CloneMeshes, polygons_empty \in BOOLEAN :
    \E t \in {fillNeighbors(m.num_points, m.polygons, Len(m.polygons))} :
      /\ polygons_empty => m.polygons = << >>
      /\ copy.life # "none"
      /\ call' = [op |-> "clone->set", threw |-> t.threw]
      /\ \E junk \in (IF t.threw = "" THEN {0} ELSE 0..MaxJunk) :
           copy' =
             [life |-> IF t.threw = "" THEN "built" ELSE "failed",
              num_points |-> ConvexBase_set(CurvePoints(m.num_points), m.num_points).num_points,
              points |-> ConvexBase_set(CurvePoints(m.num_points), m.num_points).points,
              num_polygons |-> Len(m.polygons),
              polygons_get |-> IF polygons_empty THEN NULL ELSE CloneBuffer,
              polygons |-> m.polygons,
              neighbors |-> NewArray(m.num_points, t.neighbors,
                                     [count_ |-> junk, n_ |-> junk]),
              nneighbors_ |-> NewArray(t.c_nneighbors, t.nneighbors_, junk)]
      /\ UNCHANGED <<query, polytope, reader, writer>>

\* The caller, or whoever holds a pointer to a buffer of faces, writes the
\* face f at position l of the buffer at the address through: every polytope
\* whose polygons point to that buffer has the new face.
WriteFace ==
  \E through \in {polygons_get, copy.polygons_get} \ {NULL}, l \in 1..MaxFaces,
     f \in Triangles(3) :
    LET in_this == life # "none" /\ polygons_get = through /\ l <= Len(polygons)
        in_copy == copy.life # "none" /\ copy.polygons_get = through
                   /\ l <= Len(copy.polygons)
    IN /\ in_this \/ in_copy
       /\ polygons' = IF in_this THEN [polygons EXCEPT ![l] = f] ELSE polygons
       /\ copy' = IF in_copy THEN [copy EXCEPT !.polygons[l] = f] ELSE copy
       /\ call' = [op |-> "write", through |-> through]
       /\ UNCHANGED <<query, life, num_points, num_polygons, neighbors, nneighbors_,
                      points, polygons_get, neighbors_get, nneighbors_get, reader,
                      writer>>

\* ------------------------------------------------------- mass properties
\* The coordinates of the vertices and the mass properties computed from them
\* are exact fractions <<p, q>> in lowest terms with q > 0; a division by zero
\* gives <<1, 0>>, <<-1, 0>> (the infinities) or <<0, 0>> (not a number).
RECURSIVE GCD(_, _)
GCD(a, b) == IF b = 0 THEN a ELSE GCD(b, a % b)

Abs(a) == IF a < 0 THEN 0 - a ELSE a

Frac(p, q) ==
  IF q = 0 THEN <<IF p > 0 THEN 1 ELSE IF p < 0 THEN -1 ELSE 0, 0>>
  ELSE LET g == GCD(Abs(p), Abs(q))
           sg == IF q < 0 THEN -1 ELSE 1
       IN <<(sg * p) \div g, (sg * q) \div g>>

Real(n) == <<n, 1>>
RAdd(x, y) == Frac(x[1] * y[2] + y[1] * x[2], x[2] * y[2])
RSub(x, y) == Frac(x[1] * y[2] - y[1] * x[2], x[2] * y[2])
RMul(x, y) == Frac(x[1] * y[1], x[2] * y[2])
RDiv(x, y) == Frac(x[1] * y[2], x[2] * y[1])

\* Vec3f and Matrix3f of such values: a vector is the tuple of its three
\* coefficients, a matrix the tuple of its three rows
Vec3(f) == <<f[1], f[2], f[3]>>
Mat3(f) ==
  <<<<f[1][1], f[1][2], f[1][3]>>, <<f[2][1], f[2][2], f[2][3]>>,
    <<f[3][1], f[3][2], f[3][3]>>>>

VZero == <<Real(0), Real(0), Real(0)>>
VAdd(a, b) == Vec3([x \in 1..3 |-> RAdd(a[x], b[x])])
VScale(a, k) == Vec3([x \in 1..3 |-> RMul(a[x], k)])
VOver(a, k) == Vec3([x \in 1..3 |-> RDiv(a[x], k)])
dot(a, b) == RAdd(RAdd(RMul(a[1], b[1]), RMul(a[2], b[2])), RMul(a[3], b[3]))
cross(a, b) ==
  <<RSub(RMul(a[2], b[3]), RMul(a[3], b[2])),
    RSub(RMul(a[3], b[1]), RMul(a[1], b[3])),
    RSub(RMul(a[1], b[2]), RMul(a[2], b[1]))>>

MZero == Mat3([r \in 1..3 |-> [c \in 1..3 |-> Real(0)]])
Identity == Mat3([r \in 1..3 |-> [c \in 1..3 |-> IF r = c THEN Real(1) ELSE Real(0)]])
MAdd(A, B) == Mat3([r \in 1..3 |-> [c \in 1..3 |-> RAdd(A[r][c], B[r][c])]])
MSub(A, B) == Mat3([r \in 1..3 |-> [c \in 1..3 |-> RSub(A[r][c], B[r][c])]])
MScale(A, k) == Mat3([r \in 1..3 |-> [c \in 1..3 |-> RMul(A[r][c], k)]])
MMul(A, B) ==
  Mat3([r \in 1..3 |-> [c \in 1..3 |->
          RAdd(RAdd(RMul(A[r][1], B[1][c]), RMul(A[r][2], B[2][c])), RMul(A[r][3], B[3][c]))]])
transpose(A) == Mat3([r \in 1..3 |-> [c \in 1..3 |-> A[c][r]]])
trace(A) == RAdd(RAdd(A[1][1], A[2][2]), A[3][3])

C_canonical == Mat3([r \in 1..3 |-> [c \in 1..3 |-> IF r = c THEN Frac(1, 60) ELSE Frac(1, 120)]])

\* plane_center += points_[polygon[j]] for the positions j..size-1
RECURSIVE sumOfVertices(_, _, _)
sumOfVertices(points_, polygon, j) ==
  IF j >= Len(polygon) THEN VZero
  ELSE VAdd(points_[polygon[j + 1]], sumOfVertices(points_, polygon, j + 1))

\* a variant that leaves out plane_center /= polygon.size()
plane_center_sum(points_, polygon) == sumOfVertices(points_, polygon, 0)

\* the center of the polygon
plane_center(points_, polygon) ==
  VOver(sumOfVertices(points_, polygon, 0), Real(Len(polygon)))

\* The vertices of the j-th tetrahedron of a polygon: two neighbouring points
\* and the plane center (the fourth is the reference point, zero)
Tetrahedron(points_, polygon, j) ==
  [v1 |-> points_[polygon[j + 1]],
   v2 |-> points_[polygon[((j + 1) % Len(polygon)) + 1]],
   v3 |-> plane_center(points_, polygon)]

d_six_vol(t) == dot(cross(t.v1, t.v2), t.v3)

\* The tetrahedra in the order of the two loops, over the polygons i and over
\* the positions j
RECURSIVE Tetrahedra(_, _, _, _)
Tetrahedra(points_, polygons_, i, j) ==
  IF i >= Len(polygons_) THEN << >>
  ELSE IF j >= Len(polygons_[i + 1]) THEN Tetrahedra(points_, polygons_, i + 1, 0)
  ELSE <<Tetrahedron(points_, polygons_[i + 1], j)>>
         \o Tetrahedra(points_, polygons_, i, j + 1)

\* The three accumulation loops.  The additions are exact, so the sum of the
\* terms lo..hi is taken by halves.
\* vol += d_six_vol
RECURSIVE sumVol(_, _, _)
sumVol(ts, lo, hi) ==
  IF lo > hi THEN Real(0)
  ELSE IF lo = hi THEN d_six_vol(ts[lo])
  ELSE LET mid == (lo + hi) \div 2
       IN RAdd(sumVol(ts, lo, mid), sumVol(ts, mid + 1, hi))

\* com += (points_[e_first] + points_[e_second] + plane_center) * d_six_vol
RECURSIVE sumCom(_, _, _)
sumCom(ts, lo, hi) ==
  IF lo > hi THEN VZero
  ELSE IF lo = hi
    THEN VScale(VAdd(VAdd(ts[lo].v1, ts[lo].v2), ts[lo].v3), d_six_vol(ts[lo]))
  ELSE LET mid == (lo + hi) \div 2
       IN VAdd(sumCom(ts, lo, mid), sumCom(ts, mid + 1, hi))

\* C += A.transpose() * C_canonical * A * (v1.cross(v2)).dot(v3)
RECURSIVE sumC(_, _, _)
sumC(ts, lo, hi) ==
  IF lo > hi THEN MZero
  ELSE IF lo = hi
    THEN LET A == <<ts[lo].v1, ts[lo].v2, ts[lo].v3>>
         IN MScale(MMul(MMul(transpose(A), C_canonical), A), d_six_vol(ts[lo]))
  ELSE LET mid == (lo + hi) \div 2
       IN MAdd(sumC(ts, lo, mid), sumC(ts, mid + 1, hi))

computeVolume(points_, polygons_, num_polygons_) ==
  LET ts == Tetrahedra(points_, SubSeq(polygons_, 1, num_polygons_), 0, 0)
  IN RDiv(sumVol(ts, 1, Len(ts)), Real(6))

computeCOM(points_, polygons_, num_polygons_) ==
  LET ts == Tetrahedra(points_, SubSeq(polygons_, 1, num_polygons_), 0, 0)
  IN VOver(sumCom(ts, 1, Len(ts)), RMul(sumVol(ts, 1, Len(ts)), Real(4)))

\* a variant that returns the accumulated C
computeMomentofInertia_C(points_, polygons_, num_polygons_) ==
  LET ts == Tetrahedra(points_, SubSeq(polygons_, 1, num_polygons_), 0, 0)
  IN sumC(ts, 1, Len(ts))

computeMomentofInertia(points_, polygons_, num_polygons_) ==
  LET ts == Tetrahedra(points_, SubSeq(polygons_, 1, num_polygons_), 0, 0)
      C == sumC(ts, 1, Len(ts))
  IN MSub(MScale(Identity, trace(C)), C)

\* The solids whose mass properties are computed: the boxes of sides a, b, c
\* centred at (t, 0, 0).  Vertex v has its x, y, z at the low or the high end
\* as the bits 4, 2, 1 of v say; the six quadrilateral faces are wound
\* outward, or all inward.
BoxPoints(a, b, c, t) ==
  [v \in 0..7 |-> <<Frac(2 * t + (2 * (v \div 4) - 1) * a, 2),
                     Frac((2 * ((v \div 2) % 2) - 1) * b, 2),
                     Frac((2 * (v % 2) - 1) * c, 2)>>]

OutwardFaces ==
  <<<<0, 1, 3, 2>>, <<4, 6, 7, 5>>, <<0, 4, 5, 1>>, <<2, 3, 7, 6>>, <<0, 2, 6, 4>>,
    <<1, 5, 7, 3>>>>

InwardFaces ==
  [l \in 1..Len(OutwardFaces) |-> [j \in 1..4 |-> OutwardFaces[l][5 - j]]]

Solids ==
  {[num_points |-> 8, polygons |-> fs, points |-> BoxPoints(a, b, c, t)] :
     a \in 1..MaxSide, b \in 1..MaxSide, c \in 1..MaxSide, t \in 0..MaxShift,
     fs \in {OutwardFaces, InwardFaces}}

SolidCtor == \E m \in Solids : Convex_Convex(m.points, m, FALSE)

SolidSet == \E m \in Solids : Convex_set(m.points, m, FALSE)

\* The three mass properties are computed by const member functions: they read
\* the points and the polygons and write nothing.
ComputeVolume ==
  /\ life = "built"
  /\ \E ps \in {points}, fs \in {polygons} :
       \E ret \in {computeVolume(ps, fs, num_polygons)} :
         call' = [op |-> "computeVolume", ret |-> ret]
  /\ UNCHANGED <<query, convex>>

ComputeCOM ==
  /\ life = "built"
  /\ \E ps \in {points}, fs \in {polygons} :
       \E ret \in {computeCOM(ps, fs, num_polygons)} :
         call' = [op |-> "computeCOM", ret |-> ret]
  /\ UNCHANGED <<query, convex>>

ComputeMomentofInertia ==
  /\ life = "built"
  /\ \E ps \in {points}, fs \in {polygons} :
       \E ret \in {computeMomentofInertia(ps, fs, num_polygons)} :
         call' = [op |-> "computeMomentofInertia", ret |-> ret]
  /\ UNCHANGED <<query, convex>>

\* ------------------------------------------------------------- threads
\* The polytope is built by one thread and then shared: reader threads run
\* the const member functions and look up neighbours, a writer thread calls
\* set().  No function takes a lock, so the steps of the threads interleave
\* at their reads and writes of the members.
Readers == {"r1", "r2"}

MassOps == {"computeVolume", "computeCOM", "computeMomentofInertia"}

\* The meshes of the shared polytope: no face or one triangle over three
\* vertices, which are three points of a curve that misses the origin
ThreadMeshes == {[num_points |-> 3, polygons |-> fs] : fs \in {<< >>, <<<<0, 1, 2>>>>}}

ThreadPoints ==
  [v \in 0..2 |-> <<Real(v + 1), Real((v + 1) * (v + 1)), Real((v + 1) * (v + 1) * (v + 1))>>]

ThreadCtor ==
  \E m \in ThreadMeshes : Convex_Convex(ThreadPoints, m, FALSE)

\* The value of a mass property
MassValue(op, points_, polygons_, num_polygons_) ==
  CASE op = "computeVolume" -> computeVolume(points_, polygons_, num_polygons_)
    [] op = "computeCOM" -> computeCOM(points_, polygons_, num_polygons_)
    [] op = "computeMomentofInertia" -> computeMomentofInertia(points_, polygons_, num_polygons_)

\* The values of the mass properties of the meshes above, computed once
MassValues ==
  [op \in MassOps |->
     [m \in ThreadMeshes |->
        [n \in 0..Len(m.polygons) |-> MassValue(op, ThreadPoints, m.polygons, n)]]]

MassOf(op, points_, polygons_, num_polygons_) ==
  IF /\ points_ = ThreadPoints
     /\ [num_points |-> 3, polygons |-> polygons_] \in ThreadMeshes
     /\ num_polygons_ \in 0..Len(polygons_)
    THEN MassValues[op][[num_points |-> 3, polygons |-> polygons_]][num_polygons_]
    ELSE MassValue(op, points_, polygons_, num_polygons_)

\* What a mass property is after a read outside a buffer or of a freed one:
\* any value
JunkValue(op, junk) ==
  CASE op = "computeVolume" -> Real(junk)
    [] op = "computeCOM" -> <<Real(junk), Real(junk), Real(junk)>>
    [] op = "computeMomentofInertia" -> Mat3([r \in 1..3 |-> [c \in 1..3 |-> Real(junk)]])

\* A reader enters a mass property: points_ = points.get() and
\* polygons_ = polygons.get() are read once, i = 0
BeginMass(r) ==
  \E op \in MassOps :
    /\ life = "built"
    /\ reader[r].pc = "idle"
    /\ reader' = [reader EXCEPT ![r] =
                    [pc |-> "loop", op |-> op, i |-> 0, points_ |-> points,
                     polygons_ |-> polygons, raced |-> writer.pc # "idle",
                     dangling |-> FALSE]]
    /\ call' = [op |-> "read"]
    /\ UNCHANGED <<query, polytope, copy, writer>>

\* The reader returns ret
Return(r, ret) ==
  /\ reader' = [reader EXCEPT ![r] = [pc |-> "idle"]]
  /\ call' = [op |-> reader[r].op, ret |-> ret, raced |-> reader[r].raced]

\* One turn of the loop over i: the test i < num_polygons reads the member,
\* the body reads polygons_[i] and the points_ of its vertices; after the
\* loop the value is returned.  A read of polygons_[i] outside the buffer,
\* and a read of a buffer that set() has released, may give anything.
StepMass(r) ==
  /\ reader[r].pc = "loop"
  /\ \E freed \in (IF reader[r].dangling THEN BOOLEAN ELSE {FALSE}) :
       IF reader[r].i < num_polygons
         THEN IF freed \/ reader[r].i >= Len(reader[r].polygons_)
                THEN \E junk \in 0..MaxJunk : Return(r, JunkValue(reader[r].op, junk))
                ELSE /\ reader' = [reader EXCEPT ![r].i = @ + 1]
                     /\ call' = [op |-> "read"]
         ELSE \E ps \in {reader[r].points_}, fs \in {reader[r].polygons_} :
                \E ret \in {MassOf(reader[r].op, ps, fs, reader[r].i)} :
                  Return(r, ret)
  /\ UNCHANGED <<query, polytope, copy, writer>>

\* A reader looks up the neighbours of vertex v: it reads count_ and n_ of
\* neighbors[v] ...
BeginLookup(r) ==
  \E v \in 0..(num_points - 1) :
    /\ life = "built"
    /\ reader[r].pc = "idle"
    /\ v \in DOMAIN neighbors
    /\ reader' = [reader EXCEPT ![r] =
                    [pc |-> "lookup", op |-> "neighbors", v |-> v,
                     count_ |-> neighbors[v].count_, n_ |-> neighbors[v].n_,
                     raced |-> writer.pc # "idle", dangling |-> FALSE]]
    /\ call' = [op |-> "read"]
    /\ UNCHANGED <<query, polytope, copy, writer>>

\* ... and then n_[0] .. n_[count_ - 1]: cells of nneighbors_, or anything
\* when they lie outside the array or the array n_ points into was released
StepLookup(r) ==
  /\ reader[r].pc = "lookup"
  /\ \E junk \in 0..MaxJunk :
       LET cell(x) == IF ~reader[r].dangling /\ reader[r].n_ + x \in DOMAIN nneighbors_
                        THEN nneighbors_[reader[r].n_ + x]
                        ELSE junk
       IN /\ reader' = [reader EXCEPT ![r] = [pc |-> "idle"]]
          /\ call' = [op |-> "neighbors", v |-> reader[r].v,
                      ret |-> {cell(x) : x \in 0..(reader[r].count_ - 1)},
                      raced |-> reader[r].raced]
  /\ UNCHANGED <<query, polytope, copy, writer>>

\* a variant in which a step of set() goes unnoticed
Disturb_unseen(released) == UNCHANGED reader

\* A step of set() while readers are inside a function: they have raced
\* with set(), and the buffers they read through, if released by this step,
\* dangle
Disturb(released) ==
  reader' = [r \in Readers |->
               IF reader[r].pc = "idle" THEN reader[r]
               ELSE [reader[r] EXCEPT !.raced = TRUE,
                                      !.dangling = @ \/ reader[r].pc \in released]]

\* set() is entered: ConvexBase::set(points_, num_points_)
SetBase ==
  \E m \in ThreadMeshes :
    /\ life = "built"
    /\ writer.pc = "idle"
    /\ writer.sets < MaxSets
    /\ writer' = [pc |-> "num_polygons", sets |-> writer.sets + 1, m |-> m,
                  old |-> polygons, i |-> 0]
    /\ num_points' = ConvexBase_set(ThreadPoints, m.num_points).num_points
    /\ points' = ConvexBase_set(ThreadPoints, m.num_points).points
    /\ Disturb({"loop"})
    /\ call' = [op |-> "set step"]
    /\ UNCHANGED <<query, life, polygons, num_polygons, neighbors, nneighbors_,
                   polygons_get, neighbors_get, nneighbors_get, copy>>

\* num_polygons = num_polygons_
SetNumPolygons ==
  /\ writer.pc = "num_polygons"
  /\ num_polygons' = Len(writer.m.polygons)
  /\ writer' = [writer EXCEPT !.pc = "polygons"]
  /\ Disturb({})
  /\ call' = [op |-> "set step"]
  /\ UNCHANGED <<query, life, num_points, points, polygons, neighbors, nneighbors_,
                 polygons_get, neighbors_get, nneighbors_get, copy>>

\* polygons = polygons_
SetPolygons ==
  /\ writer.pc = "polygons"
  /\ polygons' = writer.m.polygons
  /\ polygons_get' = FreshBuffer
  /\ writer' = [writer EXCEPT !.pc = "neighbors"]
  /\ Disturb({"loop"})
  /\ call' = [op |-> "set step"]
  /\ UNCHANGED <<query, life, num_points, points, num_polygons, neighbors, nneighbors_,
                 neighbors_get, nneighbors_get, copy>>

\* fillNeighbors: neighbors.reset(new Neighbors[num_points])
SetNeighborsReset ==
  /\ writer.pc = "neighbors"
  /\ \E junk \in 0..MaxJunk :
       neighbors' = NewArray(num_points, << >>, [count_ |-> junk, n_ |-> junk])
  /\ neighbors_get' = NewAddress(neighbors_get)
  /\ writer' = [writer EXCEPT !.pc = "nneighbors_"]
  /\ Disturb({})
  /\ call' = [op |-> "set step"]
  /\ UNCHANGED <<query, life, num_points, points, polygons, num_polygons, nneighbors_,
                 polygons_get, nneighbors_get, copy>>

\* fillNeighbors: the loops over the polygons, which write local sets only,
\* and nneighbors_.reset(new unsigned int[c_nneighbors])
SetNNeighborsReset ==
  /\ writer.pc = "nneighbors_"
  /\ \E junk \in 0..MaxJunk :
       nneighbors_' =
         NewArray(fillNeighbors(num_points, polygons, num_polygons).c_nneighbors, << >>, junk)
  /\ nneighbors_get' = NewAddress(nneighbors_get)
  /\ writer' = [writer EXCEPT !.pc = "fill"]
  /\ Disturb({"lookup"})
  /\ call' = [op |-> "set step"]
  /\ UNCHANGED <<query, life, num_points, points, polygons, num_polygons, neighbors,
                 polygons_get, neighbors_get, copy>>

\* fillNeighbors: one turn of the loop over the vertices i, which throws or
\* writes neighbors_[i] and the cells n_[0..count_-1]; after the loop set()
\* returns
SetFill ==
  /\ writer.pc = "fill"
  /\ LET t == fillNeighbors(num_points, polygons, num_polygons)
         i == writer.i
     IN IF i >= num_points
          THEN /\ writer' = [pc |-> "idle", sets |-> writer.sets, old |-> writer.old]
               /\ life' = "built"
               /\ UNCHANGED <<neighbors, nneighbors_>>
          ELSE IF i >= Len(t.neighbors)
            THEN /\ writer' = [pc |-> "idle", sets |-> writer.sets, old |-> writer.old]
                 /\ life' = "failed"
                 /\ UNCHANGED <<neighbors, nneighbors_>>
            ELSE /\ writer' = [writer EXCEPT !.i = i + 1]
                 /\ neighbors' = [neighbors EXCEPT ![i] = t.neighbors[i + 1]]
                 /\ nneighbors_' =
                      [x \in DOMAIN nneighbors_ |->
                         IF /\ x >= t.neighbors[i + 1].n_
                            /\ x < t.neighbors[i + 1].n_ + t.neighbors[i + 1].count_
                           THEN t.nneighbors_[x + 1]
                           ELSE nneighbors_[x]]
                 /\ UNCHANGED life
  /\ Disturb({})
  /\ call' = [op |-> "set step"]
  /\ UNCHANGED <<query, num_points, points, polygons, num_polygons, polygons_get,
                 neighbors_get, nneighbors_get, copy>>

\* ------------------------------------------- history of the update calls
\* What one update call supplies.  The overload that takes no nearest points
\* and no normal supplies none, which is recorded as nan.
Supplied(distance, o1_, o2_, b1_, b2_, np, normal_) ==
  [min_distance |-> distance, o1 |-> o1_, o2 |-> o2_, b1 |-> b1_, b2 |-> b2_,
   nearest_points |-> np, normal |-> normal_]

\* dhist of a fresh or cleared result: no call yet
FreshHist ==
  [any |-> FALSE, min |-> RealMax,
   win |-> Supplied(RealMax, NULL, NULL, NONE, NONE, <<nan, nan>>, nan)]

\* dhist after a call that supplied s: the minimum of the distances passed so
\* far and the first call that passed it.
Recorded(h, s) ==
  [any |-> TRUE,
   min |-> IF h.any THEN Min(h.min, s.min_distance) ELSE s.min_distance,
   win |-> IF h.any /\ h.min <= s.min_distance THEN h.win ELSE s]

\* ------------------------------------------ operations on DistanceResult
\* The results another traversal hands to update(other_result): a default
\* constructed one and the ones a single update made.
OtherResults ==
  {DistanceResult(RealMax)} \cup
  {DistanceResult_update_points(DistanceResult(RealMax), d, Pair(k).o1, Pair(k).o2,
                                Pair(k).b1, Pair(k).b2, Pair(k).p1, Pair(k).p2,
                                Pair(k).normal) :
     d \in Distances, k \in Pairs}

DistanceUpdate ==
  \E distance \in Distances, k \in Pairs :
    LET a == Pair(k)
        r2 == DistanceResult_update(dres, distance, a.o1, a.o2, a.b1, a.b2) IN
      /\ dres' = r2
      /\ dhist' = Recorded(dhist, Supplied(distance, a.o1, a.o2, a.b1, a.b2, <<nan, nan>>, nan))
      /\ call' = [op |-> "update", distance |-> distance, changed |-> r2 # dres]
      /\ UNCHANGED <<cres, req, convex>>

DistanceUpdatePoints ==
  \E distance \in Distances, k \in Pairs :
    LET a == Pair(k)
        r2 == DistanceResult_update_points(dres, distance, a.o1, a.o2, a.b1, a.b2,
                                           a.p1, a.p2, a.normal) IN
      /\ dres' = r2
      /\ dhist' = Recorded(dhist, Supplied(distance, a.o1, a.o2, a.b1, a.b2,
                                           <<a.p1, a.p2>>, a.normal))
      /\ call' = [op |-> "update", distance |-> distance, changed |-> r2 # dres]
      /\ UNCHANGED <<cres, req, convex>>

DistanceUpdateOther ==
  \E other_result \in OtherResults :
    LET r2 == DistanceResult_update_other(dres, other_result) IN
      /\ dres' = r2
      /\ dhist' = Recorded(dhist,
                    Supplied(other_result.min_distance, other_result.o1, other_result.o2,
                             other_result.b1, other_result.b2,
                             other_result.nearest_points, other_result.normal))
      /\ call' = [op |-> "update", distance |-> other_result.min_distance,
                  changed |-> r2 # dres]
      /\ UNCHANGED <<cres, req, convex>>

DistanceClear ==
  LET r2 == DistanceResult_clear(dres) IN
    /\ dres' = r2
    /\ dhist' = FreshHist
    /\ call' = [op |-> "DistanceResult::clear", changed |-> r2 # dres]
    /\ UNCHANGED <<cres, req, convex>>

\* ----------------------------------------- operations on CollisionResult
\* The contacts the narrow phase adds
ContactInputs ==
  {Contact(Pair(k).o1, Pair(k).o2, Pair(k).b1, Pair(k).b2, Pair(k).p1, Pair(k).normal,
           2 * k) : k \in Pairs}

AddContact ==
  \E c \in ContactInputs :
    /\ Len(cres.contacts) < MaxContacts
    /\ cres' = addContact(cres, c)
    /\ call' = [op |-> "addContact", c |-> c]
    /\ UNCHANGED <<dres, dhist, req, convex>>

GetContact ==
  \E i \in 0..(MaxContacts + 1) :
    LET out == getContact(cres, i) IN
      /\ call' = [op |-> "getContact", i |-> i, threw |-> out.threw, ret |-> out.ret]
      /\ UNCHANGED <<cres, dres, dhist, req, convex>>

SetContact ==
  \E i \in 0..(MaxContacts + 1), c \in ContactInputs :
    LET out == setContact(cres, i, c) IN
      /\ cres' = out.res
      /\ call' = [op |-> "setContact", i |-> i, c |-> c, threw |-> out.threw]
      /\ UNCHANGED <<dres, dhist, req, convex>>

UpdateDistanceLowerBound ==
  \E distance_lower_bound_ \in Distances :
    /\ cres' = updateDistanceLowerBound(cres, distance_lower_bound_)
    /\ call' = [op |-> "updateDistanceLowerBound", c |-> distance_lower_bound_]
    /\ UNCHANGED <<dres, dhist, req, convex>>

UpdateDistanceLowerBoundFromBV ==
  \E d \in 0..MaxDist :
    /\ cres' = updateDistanceLowerBoundFromBV(cres, d * d)
    /\ call' = [op |-> "updateDistanceLowerBoundFromBV", c |-> d * d]
    /\ UNCHANGED <<dres, dhist, req, convex>>

UpdateDistanceLowerBoundFromLeaf ==
  \E distance \in Distances, p0 \in Vecs, p1 \in Vecs :
    /\ cres' = updateDistanceLowerBoundFromLeaf(cres, distance, p0, p1)
    /\ call' = [op |-> "updateDistanceLowerBoundFromLeaf", c |-> distance]
    /\ UNCHANGED <<dres, dhist, req, convex>>

CollisionClear ==
  /\ cres' = CollisionResult_clear(cres)
  /\ call' = [op |-> "CollisionResult::clear",
              n |-> numContacts(cres), dlb |-> cres.distance_lower_bound]
  /\ UNCHANGED <<dres, dhist, req, convex>>

\* ------------------------------------------------ comparisons of Contact
\* The contacts compared: the ones added above and the ones the narrow phase
\* builds from two nearest points, p1 and p2 at the same distance from a point.
ContactValues ==
  ContactInputs \cup
  {Contact_points(Pair(k).o1, Pair(k).o2, Pair(k).b1, Pair(k).b2,
                  Vec3f(m - e, 0, 0), Vec3f(m + e, 0, 0), Pair(k).normal, 2 * k) :
     k \in Pairs, m \in 0..MaxVec, e \in 0..MaxVec}

\* The primitive ids of the contacts sorted, and the contacts that carry them
IdPairs == {<<2, 5>>, <<1, 9>>, <<1, 3>>}

SortedContacts ==
  {Contact(Pair(k).o1, Pair(k).o2, id[1], id[2], Pair(k).p1, Pair(k).normal, 2 * k) :
     k \in Pairs, id \in IdPairs}

\* The operands at hand: two contacts to compare, or a range to sort.
Operands ==
  {[op |-> "none", c |-> c, other |-> other] :
     c \in ContactValues \cup SortedContacts, other \in ContactValues \cup SortedContacts}
  \cup {[op |-> "none", range |-> range] :
          range \in UNION {[1..n -> SortedContacts] : n \in 0..Cardinality(IdPairs)}}

ContactEquals ==
  /\ "c" \in DOMAIN call
  /\ call' = [op |-> "operator==", c |-> call.c, other |-> call.other,
              ret |-> operator_eq(call.c, call.other)]
  /\ UNCHANGED <<query, convex>>

ContactLess ==
  /\ "c" \in DOMAIN call
  /\ call' = [op |-> "operator<", c |-> call.c, other |-> call.other,
              ret |-> operator_less(call.c, call.other)]
  /\ UNCHANGED <<query, convex>>

SortContacts ==
  /\ "range" \in DOMAIN call
  /\ \E out \in sort(call.range) :
       call' = [op |-> "sort", range |-> call.range, out |-> out]
  /\ UNCHANGED <<query, convex>>

\* --------------------------------- the warm start of the next query
\* The caller chooses how the next query is warm started.
SetGjkInitialGuess ==
  \E g \in {"DefaultGuess", "CachedGuess"} :
    /\ req' = [req EXCEPT !.gjk_initial_guess = g]
    /\ call' = [op |-> "gjk_initial_guess"]
    /\ UNCHANGED <<dres, dhist, cres, convex>>

SetEnableCachedGjkGuess ==
  \E b \in BOOLEAN :
    /\ req' = [req EXCEPT !.enable_cached_gjk_guess = b]
    /\ call' = [op |-> "enable_cached_gjk_guess"]
    /\ UNCHANGED <<dres, dhist, cres, convex>>

\* The solver leaves its last ray, its last support vertices and its timings
\* in the result of the query.
SolverCollide ==
  \E g \in Vecs, t \in 0..MaxTime :
    /\ cres' = [cres EXCEPT !.cached_gjk_guess = g,
                            !.cached_support_func_guess = support_func_guess_t(g[1], g[1]),
                            !.timings = t]
    /\ call' = [op |-> "collide"]
    /\ UNCHANGED <<dres, dhist, req, convex>>

SolverDistance ==
  \E g \in Vecs, t \in 0..MaxTime :
    /\ dres' = [dres EXCEPT !.cached_gjk_guess = g,
                            !.cached_support_func_guess = support_func_guess_t(g[1], g[1]),
                            !.timings = t]
    /\ call' = [op |-> "distance"]
    /\ UNCHANGED <<dhist, cres, req, convex>>

UpdateGuess ==
  \E arg \in {"cres", "dres"} :
    LET result == IF arg = "cres" THEN cres ELSE dres
        q2 == updateGuess(req, result) IN
      /\ req' = q2
      /\ call' = [op |-> "updateGuess", result |-> arg, changed |-> q2 # req,
                  cleared |-> call.op \in {"CollisionResult::clear", "DistanceResult::clear"}]
      /\ UNCHANGED <<dres, dhist, cres, convex>>

\* --------------------------------------------------------- specifications
InitObjects ==
  /\ dres = DistanceResult(RealMax)
  /\ dhist = FreshHist
  /\ cres \in {CollisionResult(np, np) : np \in Vecs}
  /\ req = CollisionRequest
  /\ life = "none"
  /\ num_points = 0
  /\ polygons = << >>
  /\ num_polygons = 0
  /\ neighbors = << >>
  /\ nneighbors_ = << >>
  /\ points = << >>
  /\ polygons_get = NULL
  /\ neighbors_get = NULL
  /\ nneighbors_get = NULL
  /\ copy = [life |-> "none", polygons_get |-> NULL]
  /\ reader = [r \in Readers |-> [pc |-> "idle"]]
  /\ writer = [pc |-> "idle", sets |-> 0]

Init == InitObjects /\ call = [op |-> "none"]

\* a distance query
InitDist == Init /\ cres = CollisionResult(Vec3f(0, 0, 0), Vec3f(0, 0, 0))

NextDist ==
  \/ DistanceUpdate
  \/ DistanceUpdatePoints
  \/ DistanceUpdateOther
  \/ DistanceClear

SpecDist == InitDist /\ [][NextDist]_vars

\* a collision query
NextColl ==
  \/ AddContact
  \/ GetContact
  \/ SetContact
  \/ UpdateDistanceLowerBound
  \/ UpdateDistanceLowerBoundFromBV
  \/ UpdateDistanceLowerBoundFromLeaf
  \/ CollisionClear

SpecColl == Init /\ [][NextColl]_vars

\* contacts compared and sorted
NextContact ==
  \/ ContactEquals
  \/ ContactLess
  \/ SortContacts

InitContact ==
  /\ InitObjects
  /\ cres = CollisionResult(Vec3f(0, 0, 0), Vec3f(0, 0, 0))
  /\ call \in Operands

SpecContact == InitContact /\ [][NextContact]_vars

\* a sequence of queries, each warm started from the result of the last
NextGuess ==
  \/ SetGjkInitialGuess
  \/ SetEnableCachedGjkGuess
  \/ SolverCollide
  \/ SolverDistance
  \/ UpdateGuess
  \/ CollisionClear
  \/ DistanceClear

SpecGuess == Init /\ [][NextGuess]_vars

\* a polytope, built and rebuilt
NextConvex ==
  \/ ConvexCtor
  \/ ConvexSet

SpecConvex == InitDist /\ [][NextConvex]_vars

\* the mass properties of a polytope, built and rebuilt
NextMass ==
  \/ SolidCtor
  \/ SolidSet
  \/ ComputeVolume
  \/ ComputeCOM
  \/ ComputeMomentofInertia

SpecMass == InitDist /\ [][NextMass]_vars

\* a polytope and its clone
NextClone ==
  \/ CloneCtor
  \/ CloneSet
  \/ Clone
  \/ Clone_set
  \/ WriteFace

SpecClone == InitDist /\ [][NextClone]_vars

\* readers and a writer of one polytope
NextThreads ==
  \/ ThreadCtor
  \/ \E r \in Readers : BeginMass(r)
  \/ \E r \in Readers : StepMass(r)
  \/ \E r \in Readers : BeginLookup(r)
  \/ \E r \in Readers : StepLookup(r)
  \/ SetBase
  \/ SetNumPolygons
  \/ SetPolygons
  \/ SetNeighborsReset
  \/ SetNNeighborsReset
  \/ SetFill

SpecThreads == InitDist /\ [][NextThreads]_vars

\* ================================================================ claims

\* C1: after any sequence of update calls on a fresh or cleared DistanceResult
\* min_distance is the minimum of the distances passed, and o1, o2, b1, b2,
\* nearest_points and normal are the ones supplied by the call that produced
\* that minimum (a call that takes no nearest points and no normal supplies
\* none).  Stated for the sequences whose minimum is below the initial value.
C1_FieldsBelongToMinimum ==
  (dhist.any /\ dhist.min < RealMax) =>
    /\ dres.min_distance = dhist.min
    /\ \A f \in {"o1", "o2", "b1", "b2", "nearest_points", "normal"} :
         dres[f] = dhist.win[f]

\* C5: an update whose distance is not strictly smaller than min_distance
\* (greater, or a tie) leaves every field of the result unchanged.
C5_RejectedUpdateChangesNothing ==
  [][(call'.op = "update" /\ call'.distance >= dres.min_distance) => dres' = dres]_vars

\* a tie was passed after a smaller-or-equal minimum had been found, and lost
C5_Witness ==
  /\ call.op = "update"
  /\ ~call.changed
  /\ call.distance = dres.min_distance
  /\ dres.min_distance < RealMax

\* C8: clear() puts min_distance, o1, o2, b1, b2, both nearest points and the
\* normal of a DistanceResult back to the values of a default constructed one.
C8_ClearRestoresDefaults ==
  call.op = "DistanceResult::clear" =>
    \A f \in {"min_distance", "o1", "o2", "b1", "b2", "nearest_points", "normal"} :
      dres[f] = DistanceResult(RealMax)[f]

\* a clear() of a result that updates had changed
C8_Witness == call.op = "DistanceResult::clear" /\ call.changed

\* C4: getContact(i) and setContact(i, c) throw invalid_argument and change
\* nothing when there is no contact; otherwise they address contact i when
\* i < N and contact N-1 when i >= N; neither changes the number of contacts.
C4_ContactAccess ==
  [][LET N == numContacts(cres)
         k == IF call'.i < N THEN call'.i + 1 ELSE N
     IN /\ call'.op = "getContact" =>
             /\ cres' = cres
             /\ IF N = 0 THEN call'.threw = "invalid_argument"
                         ELSE call'.threw = "" /\ call'.ret = cres.contacts[k]
        /\ call'.op = "setContact" =>
             /\ numContacts(cres') = N
             /\ IF N = 0 THEN call'.threw = "invalid_argument" /\ cres' = cres
                         ELSE /\ call'.threw = ""
                              /\ cres' = [cres EXCEPT !.contacts[k] = call'.c]]_vars

\* getContact with an index past the end returned the last of several
\* different contacts
C4_Witness ==
  /\ call.op = "getContact"
  /\ numContacts(cres) >= 2
  /\ call.i >= numContacts(cres)
  /\ call.threw = ""
  /\ call.ret = cres.contacts[numContacts(cres)]
  /\ call.ret # cres.contacts[1]

\* C6: distance_lower_bound never grows except by clear(), and
\* updateDistanceLowerBound(c) leaves the minimum of the bound and c.
C6_LowerBoundNonIncreasing ==
  [][/\ call'.op # "CollisionResult::clear" =>
          cres'.distance_lower_bound <= cres.distance_lower_bound
     /\ call'.op = "updateDistanceLowerBound" =>
          cres'.distance_lower_bound = Min(cres.distance_lower_bound, call'.c)]_vars

\* a candidate larger than the bound was passed and the bound kept
C6_Witness ==
  /\ call.op = "updateDistanceLowerBound"
  /\ call.c > cres.distance_lower_bound

\* C7: after clear() a CollisionResult has no contact, is no collision, has
\* the lower bound of a constructed result, and another clear() changes nothing.
C7_ClearResets ==
  call.op = "CollisionResult::clear" =>
    /\ numContacts(cres) = 0
    /\ ~isCollision(cres)
    /\ cres.distance_lower_bound = CollisionResult(nan, nan).distance_lower_bound
    /\ cres.distance_lower_bound = RealMax
    /\ CollisionResult_clear(cres) = cres

\* a clear() of a result that had contacts and a lowered bound
C7_Witness ==
  /\ call.op = "CollisionResult::clear"
  /\ call.n > 0
  /\ call.dlb < RealMax

\* C9: addContact(c) puts c at the end of the contacts: one contact more, the
\* earlier ones in place, lower bound and cached guess untouched, and no cap.
C9_AddContactAppends ==
  [][call'.op = "addContact" =>
       /\ numContacts(cres') = numContacts(cres) + 1
       /\ \A k \in 1..numContacts(cres) : cres'.contacts[k] = cres.contacts[k]
       /\ cres'.contacts[numContacts(cres')] = call'.c
       /\ cres'.distance_lower_bound = cres.distance_lower_bound
       /\ cres'.cached_gjk_guess = cres.cached_gjk_guess
       /\ cres'.cached_support_func_guess = cres.cached_support_func_guess]_vars

\* a contact was added beyond num_max_contacts, after a different one
C9_Witness ==
  /\ call.op = "addContact"
  /\ numContacts(cres) > req.num_max_contacts
  /\ isCollision(cres)
  /\ cres.contacts[1] # call.c

\* C10: updateGuess(result) copies the cached guess of the result into the
\* request when gjk_initial_guess is CachedGuess or enable_cached_gjk_guess is
\* set, leaves the request as it is otherwise, and never changes the result
\* nor another field of the request.
C10_UpdateGuess ==
  [][call'.op = "updateGuess" =>
       LET result == IF call'.result = "cres" THEN cres ELSE dres
           selected == req.gjk_initial_guess = "CachedGuess" \/ req.enable_cached_gjk_guess
       IN /\ cres' = cres
          /\ dres' = dres
          /\ \A f \in DOMAIN req \ {"cached_gjk_guess", "cached_support_func_guess"} :
               req'[f] = req[f]
          /\ selected =>
               /\ req'.cached_gjk_guess = result.cached_gjk_guess
               /\ req'.cached_support_func_guess = result.cached_support_func_guess
          /\ ~selected => req' = req]_vars

\* the guess was copied on the strength of the deprecated flag alone
C10_Witness ==
  /\ call.op = "updateGuess"
  /\ call.changed
  /\ req.enable_cached_gjk_guess
  /\ req.gjk_initial_guess = "DefaultGuess"
  /\ req.cached_gjk_guess = (IF call.result = "cres" THEN cres ELSE dres).cached_gjk_guess

\* C2: in a built neighbour table u is stored as a neighbour of v if and only
\* if v is stored as a neighbour of u.
C2_AdjacencySymmetric ==
  life = "built" =>
    LET N == [v \in 0..(num_points - 1) |-> Neighbors(v)]
    IN \A v \in DOMAIN N : \A u \in N[v] : u \in DOMAIN N /\ v \in N[u]

\* a table built from two faces that gives some vertex three neighbours
C2_Witness ==
  /\ life = "built"
  /\ num_polygons >= 2
  /\ \E v \in 0..(num_points - 1) : Cardinality(Neighbors(v)) >= 3

\* The distinct vertices that precede or follow v in a face of polygons_
FaceNeighbors(polygons_, v) ==
  UNION {UNION {{polygons_[l][IF j = 1 THEN Len(polygons_[l]) ELSE j - 1],
                 polygons_[l][IF j = Len(polygons_[l]) THEN 1 ELSE j + 1]} :
                  j \in {x \in 1..Len(polygons_[l]) : polygons_[l][x] = v}} :
           l \in 1..Len(polygons_)}

\* C3: the constructor and set() throw if and only if some vertex has more
\* than 255 distinct neighbours; with 255 at most the table is built.
C3_FailsIffMoreThan255 ==
  call.op \in {"Convex", "set"} =>
    (call.threw = "logic_error" <=>
       \E v \in 0..(call.num_points - 1) :
         Cardinality(FaceNeighbors(call.polygons, v)) > UCharMax)

\* C11: operator== returns true if and only if the two contacts have the same
\* o1, o2, b1, b2, normal, pos, penetration_depth and nearest points.
C11_EqualityComponentWise ==
  call.op = "operator==" =>
    (call.ret <=>
       \A f \in {"o1", "o2", "b1", "b2", "normal", "pos", "penetration_depth",
                  "nearest_points"} : call.c[f] = call.other[f])

\* The primitive ids of a sequence of contacts
Ids(range) == [x \in 1..Len(range) |-> <<range[x].b1, range[x].b2>>]

\* C12: c < d if and only if c.b1 < d.b1, or c.b1 = d.b1 and c.b2 < d.b2,
\* whatever the other fields; the relation is irreflexive, asymmetric and
\* transitive; sorting puts the ids in lexicographic order, and the contacts
\* of ids (2,5), (1,9), (1,3) in the order (1,3), (1,9), (2,5).
C12_LessIsLexicographic ==
  /\ call.op = "operator<" =>
       (call.ret <=> \/ call.c.b1 < call.other.b1
                     \/ call.c.b1 = call.other.b1 /\ call.c.b2 < call.other.b2)
  /\ call.op = "operator<" /\ call.ret => ~operator_less(call.other, call.c)
  /\ call.op = "operator<" => ~operator_less(call.c, call.c)
  /\ call.op = "operator<" /\ call.ret =>
       \A e \in ContactValues \cup SortedContacts :
         operator_less(call.other, e) => operator_less(call.c, e)
  /\ call.op = "sort" =>
       /\ \A x \in 1..(Len(call.out) - 1) :
            LET a == Ids(call.out)[x]
                b == Ids(call.out)[x + 1]
            IN a[1] < b[1] \/ (a[1] = b[1] /\ a[2] <= b[2])
       /\ Ids(call.range) = <<<<2, 5>>, <<1, 9>>, <<1, 3>>>> =>
            Ids(call.out) = <<<<1, 3>>, <<1, 9>>, <<2, 5>>>>

\* the three contacts of the example were sorted, contacts of different
\* geometries among them
C12_Witness ==
  /\ call.op = "sort"
  /\ Ids(call.range) = <<<<2, 5>>, <<1, 9>>, <<1, 3>>>>
  /\ Ids(call.out) = <<<<1, 3>>, <<1, 9>>, <<2, 5>>>>
  /\ call.out[1].o1 # call.out[2].o1

\* C13: whatever the calls of set() that came before, the neighbour table of
\* a polytope whose last set() returned is the table of a polytope freshly
\* constructed from the arguments of that set(); no neighbour is left over.
C13_TableOfLastSet ==
  (life = "built" /\ call.op = "set") =>
    LET fresh == fillNeighbors(call.num_points, call.polygons, Len(call.polygons))
    IN /\ fresh.threw = ""
       /\ neighbors = NewArray(call.num_points, fresh.neighbors, [count_ |-> 0, n_ |-> 0])
       /\ nneighbors_ = NewArray(fresh.c_nneighbors, fresh.nneighbors_, 0)
       /\ \A v \in 0..(num_points - 1) : Neighbors(v) = FaceNeighbors(call.polygons, v)

\* a set() without faces on a polytope whose table held neighbours
C13_Witness ==
  /\ life = "built"
  /\ call.op = "set"
  /\ call.had_neighbors
  /\ num_points >= 3
  /\ num_polygons = 0
  /\ \A v \in 0..(num_points - 1) : Neighbors(v) = {}

\* C18: in a built table the neighbours stored for a vertex v are exactly the
\* vertices that precede or follow v in some face, first and last position
\* wrapping around, each stored once; a vertex of no face has none.
C18_ExactFaceNeighbors ==
  life = "built" =>
    \A v \in 0..(num_points - 1) :
      /\ Neighbors(v) = FaceNeighbors(polygons, v)
      /\ Cardinality(Neighbors(v)) = neighbors[v].count_
      /\ (\A l \in 1..num_polygons : \A j \in 1..Len(polygons[l]) : polygons[l][j] # v)
           => neighbors[v].count_ = 0

\* two faces that share an edge, and a vertex that is in neither
C18_Witness ==
  /\ life = "built"
  /\ num_polygons = 2
  /\ polygons[1] # polygons[2]
  /\ \E u \in 0..(num_points - 1), v \in 0..(num_points - 1) :
       /\ u # v
       /\ \A l \in 1..2 : \E j \in 1..3 : polygons[l][j] = u
       /\ \A l \in 1..2 : \E j \in 1..3 : polygons[l][j] = v
       /\ v \in Neighbors(u)
  /\ \E w \in 0..(num_points - 1) : neighbors[w].count_ = 0

\* C19: in a built table the view of vertex 0 starts at the start of the
\* packed buffer, the view of vertex i+1 starts where the view of vertex i
\* ends, each count is the number of distinct neighbours of its vertex, and
\* the last view ends at the end of the buffer (p_nneighbors == nneighbors_ +
\* c_nneighbors).
C19_PackedLayout ==
  life = "built" =>
    /\ neighbors[0].n_ = 0
    /\ \A i \in 0..(num_points - 2) :
         neighbors[i + 1].n_ = neighbors[i].n_ + neighbors[i].count_
    /\ \A i \in 0..(num_points - 1) :
         neighbors[i].count_ = Cardinality(FaceNeighbors(polygons, i))
    /\ neighbors[num_points - 1].n_ + neighbors[num_points - 1].count_
         = Cardinality(DOMAIN nneighbors_)

\* the table of a cone whose apex has 254 neighbours, the most that is built
C19_Witness ==
  /\ life = "built"
  /\ num_points = UCharMax
  /\ neighbors[num_points - 1].count_ = UCharMax - 1
  /\ neighbors[num_points - 1].n_ > 0

\* C20: clear() of a CollisionResult or of a DistanceResult leaves its
\* cached_gjk_guess and cached_support_func_guess as they were, so that an
\* updateGuess that follows the clear() still copies the guess of the query
\* before; clear() of a CollisionResult leaves its nearest_points too.
C20_ClearKeepsGuess ==
  [][/\ call'.op = "CollisionResult::clear" =>
          /\ cres'.cached_gjk_guess = cres.cached_gjk_guess
          /\ cres'.cached_support_func_guess = cres.cached_support_func_guess
          /\ cres'.nearest_points = cres.nearest_points
     /\ call'.op = "DistanceResult::clear" =>
          /\ dres'.cached_gjk_guess = dres.cached_gjk_guess
          /\ dres'.cached_support_func_guess = dres.cached_support_func_guess
     /\ (call.op = "collide" /\ call'.op = "CollisionResult::clear") =>
          updateGuess(req, cres') = updateGuess(req, cres)
     /\ (call.op = "distance" /\ call'.op = "DistanceResult::clear") =>
          updateGuess(req, dres') = updateGuess(req, dres)]_vars

\* a CollisionResult that held the guess of a query, and nearest points that
\* are not zero, was cleared, and updateGuess then copied that guess into the
\* request
C20_Witness ==
  /\ call.op = "updateGuess"
  /\ call.result = "cres"
  /\ call.cleared
  /\ call.changed
  /\ cres.distance_lower_bound = RealMax
  /\ cres.nearest_points # <<Vec3f(0, 0, 0), Vec3f(0, 0, 0)>>
  /\ cres.cached_gjk_guess # QueryResult.cached_gjk_guess
  /\ req.cached_gjk_guess = cres.cached_gjk_guess

\* The polytope is the unit cube: vertices at (+-1/2, +-1/2, +-1/2), faces
\* wound outward
UnitCube == life = "built" /\ points = BoxPoints(1, 1, 1, 0) /\ polygons = OutwardFaces

\* The sides of the box the polytope is, its centre and its signed volume
Side(x) == RSub(points[7][x], points[0][x])
Centre == Vec3([x \in 1..3 |-> RDiv(RAdd(points[7][x], points[0][x]), Real(2))])
SignedVolume ==
  RMul(RMul(RMul(Side(1), Side(2)), Side(3)),
       IF polygons = OutwardFaces THEN Real(1) ELSE Real(-1))

\* C14: for the unit cube computeVolume() returns 1 and computeCOM() returns
\* (0, 0, 0); for every box computeVolume() returns the product of the sides,
\* negated when the faces are wound inward, and computeCOM() the centre.
C14_VolumeAndCOM ==
  /\ (call.op = "computeVolume" /\ UnitCube) => call.ret = Real(1)
  /\ (call.op = "computeCOM" /\ UnitCube) => call.ret = <<Real(0), Real(0), Real(0)>>
  /\ call.op = "computeVolume" => call.ret = SignedVolume
  /\ call.op = "computeCOM" => call.ret = Centre

\* the volume of the unit cube was computed after the polytope had been another
\* solid
C14_Witness ==
  /\ call.op = "computeVolume"
  /\ UnitCube
  /\ call.ret = <<1, 1>>

\* C15: for the unit cube computeMomentofInertia() returns a diagonal tensor
\* of diagonal entries 1/6; for every box of sides a, b, c centred at
\* (t, 0, 0) it returns, times the signed volume, the diagonal (b*b + c*c)/12,
\* (a*a + c*c)/12 + t*t, (a*a + b*b)/12 + t*t, and zeros off the diagonal.
C15_Inertia ==
  call.op = "computeMomentofInertia" =>
    LET sq(x) == RMul(Side(x), Side(x))
        tt == RMul(Centre[1], Centre[1])
        diagonal ==
          <<RDiv(RAdd(sq(2), sq(3)), Real(12)),
            RAdd(RDiv(RAdd(sq(1), sq(3)), Real(12)), tt),
            RAdd(RDiv(RAdd(sq(1), sq(2)), Real(12)), tt)>>
    IN /\ \A r \in 1..3 : \A c \in 1..3 :
            call.ret[r][c] = IF r = c THEN RMul(SignedVolume, diagonal[r]) ELSE Real(0)
       /\ UnitCube => \A r \in 1..3 : \A c \in 1..3 :
            call.ret[r][c] = IF r = c THEN <<1, 6>> ELSE <<0, 1>>

\* the inertia of the unit cube was computed
C15_Witness ==
  /\ call.op = "computeMomentofInertia"
  /\ UnitCube
  /\ call.ret[1][1] = <<1, 6>>
  /\ call.ret[1][2] = <<0, 1>>

\* C16: clone() makes a polytope with the face count and the faces of the
\* original, in a buffer of its own, and none when the original has none; a
\* face written into the buffer of one of the two polytopes, and a set() of
\* one of them, leave the faces of the other as they were.
C16_CloneIsIndependent ==
  [][/\ call'.op = "clone" =>
          /\ copy'.num_polygons = num_polygons
          /\ copy'.polygons = polygons
          /\ polygons_get = NULL => copy'.polygons_get = NULL
          /\ polygons_get # NULL => copy'.polygons_get \notin {NULL, polygons_get}
     /\ (copy.life # "none" /\ call'.op = "write" /\ call'.through = polygons_get)
          => copy' = copy
     /\ (copy.life # "none" /\ call'.op = "write" /\ call'.through = copy.polygons_get)
          => polygons' = polygons
     /\ (copy.life # "none" /\ call'.op = "set")
          => copy' = copy
     /\ call'.op = "clone->set"
          => polygons' = polygons /\ num_polygons' = num_polygons
                /\ polygons_get' = polygons_get]_vars

\* a face of the original was written in place after the clone was made, and
\* the clone still has the faces it was made with
C16_Witness ==
  /\ call.op = "write"
  /\ call.through = polygons_get
  /\ copy.life = "built"
  /\ copy.polygons_get \notin {NULL, polygons_get}
  /\ copy.num_polygons = num_polygons
  /\ copy.polygons # polygons

\* The neighbours of vertex v in the table that fillNeighbors builds from
\* the faces
TableOf(polygons_, num_polygons_, v) ==
  LET t == fillNeighbors(num_points, polygons_, num_polygons_)
  IN {t.nneighbors_[t.neighbors[v + 1].n_ + x] : x \in 1..t.neighbors[v + 1].count_}

HalfRebuilt(r) ==
  /\ reader[r].pc = "lookup"
  /\ reader[r].raced
  /\ LET held == [count_ |-> reader[r].count_, n_ |-> reader[r].n_]
         before == fillNeighbors(num_points, writer.old, Len(writer.old))
     IN /\ held # neighbors[reader[r].v]
        /\ held # before.neighbors[reader[r].v + 1]

TableBuiltFrom ==
  [m \in Inputs |-> fillNeighbors(m.num_points, m.polygons, Len(m.polygons))]

\* C21: when set() throws, the vertices and the faces passed to it are
\* installed, the arrays of the neighbour table are new ones, of which the
\* entries of the vertices before the one that has too many neighbours are
\* written and the others are not, and the polytope is not as it was before
\* the call.
C21_FailedSetNotRolledBack ==
  [][(call'.op = "set" /\ call'.threw = "logic_error") =>
       \A t \in {TableBuiltFrom[[num_points |-> call'.num_points,
                                  polygons |-> call'.polygons]]} :
        \A written \in {Len(t.neighbors)} :
          /\ num_points' = call'.num_points
          /\ points' = CurvePoints(call'.num_points)
          /\ polygons' = call'.polygons
          /\ num_polygons' = Len(call'.polygons)
          /\ neighbors_get' # neighbors_get
          /\ nneighbors_get' # nneighbors_get
          /\ DOMAIN neighbors' = 0..(num_points' - 1)
          /\ written < num_points'
          /\ \A v \in 0..(written - 1) : neighbors'[v] = t.neighbors[v + 1]
          /\ \E junk \in 0..MaxJunk :
               \A v \in written..(num_points' - 1) :
                 neighbors'[v] = [count_ |-> junk, n_ |-> junk]
          /\ polytope' # polytope]_vars

\* set() threw on a polytope that had a table of another number of vertices,
\* after it had written the entries of the vertices of the base
C21_Witness ==
  /\ call.op = "set"
  /\ call.threw = "logic_error"
  /\ call.had_neighbors
  /\ life = "failed"
  /\ num_points = UCharMax + 1
  /\ neighbors[0] = [count_ |-> 3, n_ |-> 0]
  /\ nneighbors_[0] = 1

====
